---- MODULE Spec2Model ----
(***************************************************************************)
(* Model of the tslint rule no-undefined-or-null-comparison                *)
(* (src/rules/noUndefinedOrNullComparisonRule.ts).                         *)
(*                                                                         *)
(* A syntax tree is a nested record [kind, text, kids]; kids lists the     *)
(* children in the order ts.forEachChild hands them to its callback.  A    *)
(* node is identified by its path from the root (the sequence of child     *)
(* indices), which stands for the node's source span.  The walk is         *)
(* modelled one callback invocation at a time, with the chain of pending   *)
(* ts.forEachChild calls kept as an explicit stack of frames.              *)
(***************************************************************************)
EXTENDS Integers, Sequences, FiniteSets, TLC

(***************************************************************************)
(* Bounds                                                                  *)
(***************************************************************************)
\* largest number of expression nodes in one source file
MaxNodes == 5
\* largest number of expression nodes in a file of the small family
MaxSmallNodes == 4
\* longest rule-argument list
MaxArgs == 2

(***************************************************************************)
(* Program constants                                                       *)
(***************************************************************************)
OPTION_ALLOW_NULL_CHECK == "allow-null-check"
OPTION_ALLOW_UNDEFINED_CHECK == "allow-undefined-check"

\* the values of type InvalidOperand
InvalidOperand == {"Both", "Left", "Right", "None"}

(***************************************************************************)
(* Syntax trees                                                            *)
(***************************************************************************)
MkNode(kind, text, kids) == [kind |-> kind, text |-> text, kids |-> kids]

NullKeyword == MkNode("NullKeyword", "null", <<>>)

Identifier(text) == MkNode("Identifier", text, <<>>)

OperatorToken(kind) == MkNode(kind, "", <<>>)

\* ts.forEachChild visits left, operatorToken, right, in that order
BinaryExpression(left, op, right) ==
    MkNode("BinaryExpression", "", <<left, OperatorToken(op), right>>)

ParenthesizedExpression(e) == MkNode("ParenthesizedExpression", "", <<e>>)

PropertyAccessExpression(e, name) ==
    MkNode("PropertyAccessExpression", "", <<e, Identifier(name)>>)

ExpressionStatement(e) == MkNode("ExpressionStatement", "", <<e>>)

SourceFile(statements) == MkNode("SourceFile", "", statements)

\* the four equality operators and one operator outside the family
EqualityTokens ==
    {"EqualsEqualsToken", "ExclamationEqualsToken",
     "EqualsEqualsEqualsToken", "ExclamationEqualsEqualsToken"}

OperatorTokens == EqualityTokens \cup {"LessThanToken"}

\* the operators used where comparisons nest: one loose and one strict
\* equality operator and the operator outside the family
NestingTokens ==
    {"EqualsEqualsToken", "ExclamationEqualsEqualsToken", "LessThanToken"}

Leaves == {NullKeyword, Identifier("undefined"), Identifier("a")}

RECURSIVE Expressions(_, _)
\* the expressions with exactly n expression nodes, built with operators ops
Expressions(n, ops) ==
    IF n <= 0 THEN {}
    ELSE IF n = 1 THEN Leaves
    ELSE {PropertyAccessExpression(e, "undefined") : e \in Expressions(n - 2, ops)}
         \cup UNION {{BinaryExpression(l, op, r) :
                          l \in Expressions(k, ops), op \in ops,
                          r \in Expressions(n - 1 - k, ops)} : k \in 1..(n - 2)}

RECURSIVE StatementLists(_, _)
\* the statement lists with at most n expression nodes in all
StatementLists(n, ops) ==
    {<<>>} \cup
    UNION {{<<ExpressionStatement(e)>> \o rest :
                e \in Expressions(k, ops), rest \in StatementLists(n - k, ops)} :
               k \in 1..n}

\* one comparison per file: every operator, every operand form
FlatOperands ==
    Leaves \cup {ParenthesizedExpression(e) : e \in Leaves}
           \cup {PropertyAccessExpression(e, "undefined") : e \in Leaves}

FlatFiles ==
    {SourceFile(<<ExpressionStatement(BinaryExpression(l, op, r))>>) :
         l \in FlatOperands, op \in OperatorTokens, r \in FlatOperands}

\* (a == null) == b
NestedExample ==
    SourceFile(<<ExpressionStatement(
        BinaryExpression(
            ParenthesizedExpression(
                BinaryExpression(Identifier("a"), "EqualsEqualsToken", NullKeyword)),
            "EqualsEqualsToken", Identifier("b")))>>)

\* two comparisons side by side: as two statements, or as the two operands
\* of a third binary expression
SiblingFiles ==
    {SourceFile(<<ExpressionStatement(
                      BinaryExpression(l, "EqualsEqualsToken", m)),
                  ExpressionStatement(
                      BinaryExpression(r, "ExclamationEqualsEqualsToken", NullKeyword))>>) :
         l \in Leaves, m \in Leaves, r \in Leaves}
    \cup {SourceFile(<<ExpressionStatement(
               BinaryExpression(
                   BinaryExpression(l, "ExclamationEqualsToken", Identifier("undefined")),
                   op,
                   BinaryExpression(m, "EqualsEqualsEqualsToken", r)))>>) :
              l \in Leaves, op \in NestingTokens, m \in Leaves, r \in Leaves}

SourceFiles ==
    {SourceFile(s) : s \in StatementLists(MaxNodes, NestingTokens)}
    \cup FlatFiles \cup SiblingFiles \cup {NestedExample}

SmallFiles == {SourceFile(s) : s \in StatementLists(MaxSmallNodes, OperatorTokens)}

\* the files scanned repeatedly: one comparison of two leaves, or a
\* comparison whose left operand is a comparison of null and undefined
RepeatFiles ==
    {SourceFile(<<ExpressionStatement(BinaryExpression(l, op, r))>>) :
         l \in Leaves, op \in OperatorTokens, r \in Leaves}
    \cup {SourceFile(<<ExpressionStatement(
               BinaryExpression(BinaryExpression(l, "EqualsEqualsToken", m),
                                "ExclamationEqualsToken", r))>>) :
              l \in Leaves \ {Identifier("a")}, m \in Leaves \ {Identifier("a")},
              r \in Leaves \ {Identifier("a")}}

RuleArgumentTokens ==
    {OPTION_ALLOW_NULL_CHECK, OPTION_ALLOW_UNDEFINED_CHECK, "other"}

\* every list of at most MaxArgs tokens
RuleArguments == UNION {[1..n -> RuleArgumentTokens] : n \in 0..MaxArgs}

\* one list for each subset of the two options
OptionSubsets ==
    {<<>>, <<OPTION_ALLOW_NULL_CHECK>>, <<OPTION_ALLOW_UNDEFINED_CHECK>>,
     <<OPTION_ALLOW_NULL_CHECK, OPTION_ALLOW_UNDEFINED_CHECK>>}

(***************************************************************************)
(* Tree access                                                             *)
(***************************************************************************)
RECURSIVE NodeAt(_, _)
\* the node reached from root by following the child indices in path
NodeAt(root, path) ==
    IF path = <<>> THEN root
    ELSE NodeAt(root.kids[Head(path)], Tail(path))

RECURSIVE PathsOf(_)
\* the paths of all the nodes of the tree, the root's (<<>>) included
PathsOf(root) ==
    {<<>>} \cup UNION {{<<i>> \o p : p \in PathsOf(root.kids[i])} :
                           i \in 1..Len(root.kids)}

(***************************************************************************)
(* Pure functions of the rule                                              *)
(***************************************************************************)
\* Array.prototype.indexOf: the first (0-based) index of x, or -1
IndexOf(array, x) ==
    IF \E i \in 1..Len(array) : array[i] = x
    THEN (CHOOSE i \in 1..Len(array) :
              array[i] = x /\ \A j \in 1..(i - 1) : array[j] # x) - 1
    ELSE -1

\* the options with "indexOf(...) > 0" written for "indexOf(...) !== -1"
OptionsPositiveIndex(ruleArguments) ==
    [allowNull |-> IndexOf(ruleArguments, OPTION_ALLOW_NULL_CHECK) > 0,
     allowUndefined |-> IndexOf(ruleArguments, OPTION_ALLOW_UNDEFINED_CHECK) > 0]

\* the options object built in Rule.apply
Options(ruleArguments) ==
    [allowNull |-> IndexOf(ruleArguments, OPTION_ALLOW_NULL_CHECK) # -1,
     allowUndefined |-> IndexOf(ruleArguments, OPTION_ALLOW_UNDEFINED_CHECK) # -1]

\* tsutils.isBinaryExpression
isBinaryExpression(node) == node.kind = "BinaryExpression"

\* ts.isIdentifier
isIdentifier(node) == node.kind = "Identifier"

\* Lint.getEqualsKind(token) is defined (TRUE) or undefined (FALSE)
getEqualsKind(token) ==
    token.kind \in {"EqualsEqualsToken", "ExclamationEqualsToken",
                    "EqualsEqualsEqualsToken", "ExclamationEqualsEqualsToken"}

\* the message with the two branches of the conditional swapped
FAILURE_STRING_FACTORY_Swapped(node) ==
    IF node.kind = "NullKeyword"
    THEN "Comparison operand is undefined"
    ELSE "Comparison operand is null"

FAILURE_STRING_FACTORY(node) ==
    IF node.kind = "NullKeyword"
    THEN "Comparison operand is null"
    ELSE "Comparison operand is undefined"

\* the test without the comparison of the identifier's text
operandInvalidAnyIdentifier(node, options) ==
    \/ isIdentifier(node) /\ ~options.allowUndefined
    \/ node.kind = "NullKeyword" /\ ~options.allowNull

\* the test with allowNull consulted for undefined as well
operandInvalidOneFlag(node, options) ==
    \/ isIdentifier(node) /\ node.text = "undefined" /\ ~options.allowNull
    \/ node.kind = "NullKeyword" /\ ~options.allowNull

\* the test of lines 93-94 and 98-99 on one operand
operandInvalid(node, options) ==
    \/ isIdentifier(node) /\ node.text = "undefined" /\ ~options.allowUndefined
    \/ node.kind = "NullKeyword" /\ ~options.allowNull

getInvalidOperands(nodeLeft, nodeRight, options) ==
    LET leftInvalid == operandInvalid(nodeLeft, options)
        rightInvalid == operandInvalid(nodeRight, options)
    IN  IF leftInvalid /\ rightInvalid THEN "Both"
        ELSE IF leftInvalid THEN "Left"
        ELSE IF rightInvalid THEN "Right"
        ELSE "None"

\* the guard without the test of the operator
cbMatchesAnyBinary(node) == isBinaryExpression(node)

\* the guard of line 76
cbMatches(node) ==
    isBinaryExpression(node) /\ getEqualsKind(node.kids[2])

\* ctx.addFailureAtNode(node, failure): the failure appended to ctx.failures
addFailureAtNode(failures, path, failure) ==
    Append(failures, [node |-> path, failure |-> failure])

\* cb with "else if" in front of the second test: Both reports the left only
cbFailuresElseIf(failures, node, path, options) ==
    IF isBinaryExpression(node) /\ getEqualsKind(node.kids[2])
    THEN LET left == node.kids[1]
             right == node.kids[3]
             invalidOperands == getInvalidOperands(left, right, options)
         IN  IF invalidOperands = "Both" \/ invalidOperands = "Left"
             THEN addFailureAtNode(failures, path \o <<1>>,
                                   FAILURE_STRING_FACTORY(left))
             ELSE IF invalidOperands = "Right"
             THEN addFailureAtNode(failures, path \o <<3>>,
                                   FAILURE_STRING_FACTORY(right))
             ELSE failures
    ELSE failures

\* cb with the two if statements in the other order
cbFailuresRightFirst(failures, node, path, options) ==
    IF isBinaryExpression(node) /\ getEqualsKind(node.kids[2])
    THEN LET left == node.kids[1]
             right == node.kids[3]
             invalidOperands == getInvalidOperands(left, right, options)
             afterRight ==
                 IF invalidOperands = "Both" \/ invalidOperands = "Right"
                 THEN addFailureAtNode(failures, path \o <<3>>,
                                       FAILURE_STRING_FACTORY(right))
                 ELSE failures
         IN  IF invalidOperands = "Both" \/ invalidOperands = "Left"
             THEN addFailureAtNode(afterRight, path \o <<1>>,
                                   FAILURE_STRING_FACTORY(left))
             ELSE afterRight
    ELSE failures

\* lines 76-84 of cb, run on the node at path: ctx.failures afterwards
cbFailures(failures, node, path, options) ==
    IF cbMatches(node)
    THEN LET left == node.kids[1]
             right == node.kids[3]
             invalidOperands == getInvalidOperands(left, right, options)
             afterLeft ==
                 IF invalidOperands = "Both" \/ invalidOperands = "Left"
                 THEN addFailureAtNode(failures, path \o <<1>>,
                                       FAILURE_STRING_FACTORY(left))
                 ELSE failures
         IN  IF invalidOperands = "Both" \/ invalidOperands = "Right"
             THEN addFailureAtNode(afterLeft, path \o <<3>>,
                                   FAILURE_STRING_FACTORY(right))
             ELSE afterLeft
    ELSE failures

\* cb going on into the children in an else branch only
cbDescendsUnlessMatched(node, options) ==
    ~(isBinaryExpression(node) /\ getEqualsKind(node.kids[2]))

\* line 85: cb always goes on into the children of its node
cbDescends(node, options) == TRUE

\* cb returning true once it has reported an operand of its node
cbReturnTrueAfterFailure(node, options, childResult) ==
    \/ childResult
    \/ /\ isBinaryExpression(node) /\ getEqualsKind(node.kids[2])
       /\ getInvalidOperands(node.kids[1], node.kids[3], options) # "None"

\* line 85: cb returns what ts.forEachChild(node, cb) returned (truthiness)
cbReturn(node, options, childResult) == childResult

(***************************************************************************)
(* State                                                                   *)
(***************************************************************************)
VARIABLES
    pc,             \* "idle", "walking" or "done"
    ruleArguments,  \* this.ruleArguments of the Rule
    sourceFile,     \* the tree handed to apply
    options,        \* ctx.options
    failures,       \* ctx.failures
    stack,          \* pending ts.forEachChild calls: [node |-> path, idx |-> next child]
    result,         \* truthiness of the value the last finished callback returned
    visited,        \* the paths cb was called on, in call order
    last            \* a finished scan the host kept, or NoScan

vars == <<pc, ruleArguments, sourceFile, options, failures, stack, result,
          visited, last>>

NoFile == SourceFile(<<>>)

NoOptions == [allowNull |-> FALSE, allowUndefined |-> FALSE]

NoScan == [kept |-> FALSE, sourceFile |-> NoFile, ruleArguments |-> <<>>,
           options |-> NoOptions, failures |-> <<>>]

\* a Rule has been constructed with some rule arguments; nothing scanned yet
InitWith(arguments) ==
    /\ pc = "idle"
    /\ ruleArguments \in arguments
    /\ sourceFile = NoFile
    /\ options = NoOptions
    /\ failures = <<>>
    /\ stack = <<>>
    /\ result = FALSE
    /\ visited = <<>>
    /\ last = NoScan

Init == InitWith(OptionSubsets)

InitArguments == InitWith(RuleArguments)

\* apply switching the flags on in one options object shared by all scans
ApplySharedOptions(files) ==
    /\ pc = "idle"
    /\ \E sf \in files : sourceFile' = sf
    /\ pc' = "walking"
    /\ options' =
           [allowNull |-> options.allowNull \/ Options(ruleArguments).allowNull,
            allowUndefined |->
                options.allowUndefined \/ Options(ruleArguments).allowUndefined]
    /\ failures' = <<>>
    /\ stack' = <<[node |-> <<>>, idx |-> 1]>>
    /\ result' = FALSE
    /\ visited' = <<>>
    /\ UNCHANGED <<ruleArguments, last>>

\* Rule.apply up to the first call of cb: the options are resolved, a fresh
\* context is made and walk calls ts.forEachChild(ctx.sourceFile, cb)
Apply(files) ==
    /\ pc = "idle"
    /\ \E sf \in files : sourceFile' = sf
    /\ pc' = "walking"
    /\ options' = Options(ruleArguments)
    /\ failures' = <<>>
    /\ stack' = <<[node |-> <<>>, idx |-> 1]>>
    /\ result' = FALSE
    /\ visited' = <<>>
    /\ UNCHANGED <<ruleArguments, last>>

Top == stack[Len(stack)]

TopNode == NodeAt(sourceFile, Top.node)

\* the innermost ts.forEachChild calls cb on its next child; cb runs up to
\* its own call of ts.forEachChild
Cb ==
    /\ pc = "walking"
    /\ ~result
    /\ Top.idx <= Len(TopNode.kids)
    /\ LET path == Top.node \o <<Top.idx>>
           node == NodeAt(sourceFile, path)
           advanced == [stack EXCEPT ![Len(stack)].idx = @ + 1]
       IN  /\ visited' = Append(visited, path)
           /\ failures' = cbFailures(failures, node, path, options)
           /\ stack' = Append(advanced,
                              [node |-> path,
                               idx |-> IF cbDescends(node, options)
                                       THEN 1 ELSE Len(node.kids) + 1])
    /\ UNCHANGED <<pc, ruleArguments, sourceFile, options, result, last>>

\* the innermost ts.forEachChild returns: it ran out of children (undefined)
\* or a callback returned a truthy value; the cb that called it returns the
\* same, and when it was walk's own call, apply returns ctx.failures
Return ==
    /\ pc = "walking"
    /\ result \/ Top.idx > Len(TopNode.kids)
    /\ stack' = SubSeq(stack, 1, Len(stack) - 1)
    /\ IF Len(stack) = 1
       THEN pc' = "done" /\ result' = FALSE
       ELSE pc' = pc /\ result' = cbReturn(TopNode, options, result)
    /\ UNCHANGED <<ruleArguments, sourceFile, options, failures, visited, last>>

\* the host takes the failures apply returned; the context is dropped
Release ==
    /\ pc = "done"
    /\ pc' = "idle"
    /\ failures' = <<>>
    /\ visited' = <<>>
    /\ sourceFile' = NoFile
    /\ UNCHANGED <<ruleArguments, options, stack, result, last>>

\* the host keeps the outcome of the scan that has just finished
Keep ==
    /\ pc = "done"
    /\ last' = [kept |-> TRUE, sourceFile |-> sourceFile,
                ruleArguments |-> ruleArguments, options |-> options,
                failures |-> failures]
    /\ UNCHANGED <<pc, ruleArguments, sourceFile, options, failures, stack,
                   result, visited>>

\* the host constructs the Rule for another configuration
Construct ==
    /\ pc = "idle"
    /\ \E arguments \in OptionSubsets : ruleArguments' = arguments
    /\ UNCHANGED <<pc, sourceFile, options, failures, stack, result, visited,
                   last>>

\* one Rule, one scan after the other
Next ==
    \/ Apply(SourceFiles)
    \/ Cb
    \/ Return
    \/ Release

Spec == Init /\ [][Next]_vars

\* any rule-argument list, small files
NextSmall ==
    \/ Apply(SmallFiles)
    \/ Cb
    \/ Return
    \/ Release

SpecSmall == InitArguments /\ [][NextSmall]_vars

\* small files under the four configurations; a call of apply runs to
\* completion, the code being synchronous
FairSpec == Init /\ [][NextSmall]_vars /\ WF_vars(Cb) /\ WF_vars(Return)

\* scans of several files under several configurations, one outcome kept
NextRepeat ==
    \/ Apply(RepeatFiles)
    \/ Cb
    \/ Return
    \/ Release
    \/ Keep
    \/ Construct

SpecRepeat == Init /\ [][NextRepeat]_vars

(***************************************************************************)
(* What the claims speak of, stated on the tree itself                     *)
(***************************************************************************)
Paths == PathsOf(sourceFile)

Descendants == Paths \ {<<>>}

Parent(path) == SubSeq(path, 1, Len(path) - 1)

IsPrefix(p, q) == Len(p) <= Len(q) /\ SubSeq(q, 1, Len(p)) = p

\* p comes before q in depth-first pre-order
PreOrderBefore(p, q) ==
    /\ p # q
    /\ \/ IsPrefix(p, q)
       \/ \E k \in 1..Len(p) :
              /\ k <= Len(q)
              /\ SubSeq(p, 1, k - 1) = SubSeq(q, 1, k - 1)
              /\ p[k] < q[k]

IsBinary(path) == NodeAt(sourceFile, path).kind = "BinaryExpression"

IsEqualityComparison(path) ==
    /\ IsBinary(path)
    /\ NodeAt(sourceFile, path).kids[2].kind \in EqualityTokens

IsOtherBinary(path) == IsBinary(path) /\ ~IsEqualityComparison(path)

\* path is the left or the right operand of a binary expression
IsOperand(path) ==
    /\ path # <<>>
    /\ IsBinary(Parent(path))
    /\ path[Len(path)] \in {1, 3}

IsNull(path) == NodeAt(sourceFile, path).kind = "NullKeyword"

IsUndefined(path) ==
    /\ NodeAt(sourceFile, path).kind = "Identifier"
    /\ NodeAt(sourceFile, path).text = "undefined"

\* the operand at path is to be reported under the flags allowNull, allowUndefined
Reportable(path, allowNull, allowUndefined) ==
    /\ IsOperand(path)
    /\ IsEqualityComparison(Parent(path))
    /\ \/ IsNull(path) /\ ~allowNull
       \/ IsUndefined(path) /\ ~allowUndefined

ToReport(path) == Reportable(path, options.allowNull, options.allowUndefined)

FindingsAt(path) == {i \in 1..Len(failures) : failures[i].node = path}

Reported(path) == FindingsAt(path) # {}

Default == options = [allowNull |-> FALSE, allowUndefined |-> FALSE]

\* C1: an operand gets a finding if and only if it is the left or right
\* operand of an ==, !=, === or !== expression, is the null literal or the
\* identifier undefined, and the flag for that value is off; findings are
\* never put anywhere else.
C1_FindingIffInvalidOperand ==
    /\ \A i \in 1..Len(failures) :
           failures[i].node \in Paths /\ ToReport(failures[i].node)
    /\ pc = "done" => \A p \in Paths : Reported(p) <=> ToReport(p)

\* a finished scan that reported an operand and passed over x.undefined,
\* the operand of an equality comparison
C1_Witness ==
    /\ pc = "done"
    /\ \E p \in Paths : ToReport(p) /\ Reported(p)
    /\ \E p \in Paths :
           /\ IsOperand(p) /\ IsEqualityComparison(Parent(p))
           /\ NodeAt(sourceFile, p).kind = "PropertyAccessExpression"
           /\ ~Reported(p)

InvalidOperandsOf(path) == {o \in {path \o <<1>>, path \o <<3>>} : ToReport(o)}

FindingsOf(path) == FindingsAt(path \o <<1>>) \cup FindingsAt(path \o <<3>>)

\* C3: when the scan is over, each equality comparison has as many findings
\* as it has invalid operands, one per invalid operand, and with two
\* invalid operands the left one's finding is immediately followed by the
\* right one's.
C3_FindingsPerExpression ==
    pc = "done" =>
        \A p \in Paths : IsEqualityComparison(p) =>
            /\ Cardinality(FindingsOf(p)) = Cardinality(InvalidOperandsOf(p))
            /\ \A o \in InvalidOperandsOf(p) : Cardinality(FindingsAt(o)) = 1
            /\ Cardinality(InvalidOperandsOf(p)) = 2 =>
                   \E i \in 1..(Len(failures) - 1) :
                       /\ failures[i].node = p \o <<1>>
                       /\ failures[i + 1].node = p \o <<3>>

\* null == undefined scanned with the default configuration: two findings,
\* left then right
C3_Witness ==
    /\ pc = "done"
    /\ Default
    /\ sourceFile = SourceFile(<<ExpressionStatement(
           BinaryExpression(NullKeyword, "EqualsEqualsToken",
                            Identifier("undefined")))>>)
    /\ Len(failures) = 2
    /\ failures[1].node = <<1, 1, 1>>
    /\ failures[2].node = <<1, 1, 3>>

\* q lies strictly inside the expression at p
Inside(q, p) == p # q /\ IsPrefix(p, q)

\* C4: no finding is ever put on an operand of a binary expression whose
\* operator is outside ==, !=, ===, !==, and when the scan is over every
\* invalid operand of an equality comparison lying inside such an expression
\* has been reported.
C4_OtherOperatorsIgnoredButEntered ==
    /\ \A i \in 1..Len(failures) :
           LET o == failures[i].node
           IN  ~(IsOperand(o) /\ IsOtherBinary(Parent(o)))
    /\ pc = "done" =>
           \A p \in Paths, q \in Paths :
               (IsOtherBinary(p) /\ Inside(q, p) /\ IsEqualityComparison(q)) =>
                   \A o \in InvalidOperandsOf(q) : Reported(o)

\* a finished scan of an expression like (a == null) < null: the inner
\* null is reported, the null operand of < is not
C4_Witness ==
    /\ pc = "done"
    /\ \E p \in Paths, q \in Paths :
           /\ IsOtherBinary(p) /\ Inside(q, p) /\ IsEqualityComparison(q)
           /\ InvalidOperandsOf(q) # {}
           /\ \A o \in InvalidOperandsOf(q) : Reported(o)
           /\ IsNull(p \o <<3>>) /\ ~options.allowNull
           /\ ~Reported(p \o <<3>>)

\* p is an equality comparison with an equality comparison inside it, or
\* lies inside one
IsNested(p) ==
    /\ IsEqualityComparison(p)
    /\ \E q \in Paths :
           IsEqualityComparison(q) /\ (Inside(q, p) \/ Inside(p, q))

\* C5: when the scan is over, every equality comparison that contains or
\* lies inside another one has exactly one finding on each of its own
\* invalid operands and none on its other operand, whatever the other
\* comparison got; (a == null) == b under the default configuration gets
\* the single finding on the inner null.
C5_NestedComparisonsIndependent ==
    pc = "done" =>
        /\ \A p \in Paths : IsNested(p) =>
               \A o \in {p \o <<1>>, p \o <<3>>} :
                   Cardinality(FindingsAt(o)) = IF ToReport(o) THEN 1 ELSE 0
        /\ (sourceFile = NestedExample /\ Default) =>
               failures = <<[node |-> <<1, 1, 1, 1, 3>>,
                             failure |-> "Comparison operand is null"]>>

\* (a == null) == b has been scanned under the default configuration
C5_Witness ==
    /\ pc = "done"
    /\ sourceFile = NestedExample
    /\ Default
    /\ IsNested(<<1, 1>>)
    /\ Len(failures) = 1

\* C6: findings come in depth-first pre-order of the expressions they belong
\* to: of two findings the earlier one belongs to an expression that comes
\* first in pre-order, or both belong to the same expression and the earlier
\* one is on the left operand, the later one on the right operand.
C6_FindingsInPreOrder ==
    \A i \in 1..Len(failures), j \in 1..Len(failures) :
        i < j =>
            LET a == failures[i].node
                b == failures[j].node
            IN  \/ PreOrderBefore(Parent(a), Parent(b))
                \/ /\ Parent(a) = Parent(b)
                   /\ a[Len(a)] = 1
                   /\ b[Len(b)] = 3

\* a finished scan in which an outer comparison and a comparison in its left
\* operand both got findings, the outer one's first
C6_Witness ==
    /\ pc = "done"
    /\ \E i \in 1..Len(failures), j \in 1..Len(failures) :
           /\ i < j
           /\ IsPrefix(Parent(failures[i].node) \o <<1>>, Parent(failures[j].node))
           /\ failures[i].node = Parent(failures[i].node) \o <<3>>

NullMessage == "Comparison operand is null"

UndefinedMessage == "Comparison operand is undefined"

\* C7: every finding sits on an operand of a binary expression, never on
\* the expression or elsewhere, and its message is the null message exactly
\* when that operand is the null literal and the undefined message exactly
\* when it is the identifier undefined.
C7_AnchorAndMessage ==
    \A i \in 1..Len(failures) :
        LET o == failures[i].node
        IN  /\ o \in Paths
            /\ IsOperand(o)
            /\ failures[i].failure \in {NullMessage, UndefinedMessage}
            /\ failures[i].failure = NullMessage <=> IsNull(o)
            /\ failures[i].failure = UndefinedMessage <=> IsUndefined(o)

\* a finished scan with a finding of each kind
C7_Witness ==
    /\ pc = "done"
    /\ \E i \in 1..Len(failures) : failures[i].failure = NullMessage
    /\ \E i \in 1..Len(failures) : failures[i].failure = UndefinedMessage

Occurs(token) == \E i \in 1..Len(ruleArguments) : ruleArguments[i] = token

\* C8: in every scan allowNull is on exactly when "allow-null-check" occurs
\* in the rule arguments and allowUndefined exactly when
\* "allow-undefined-check" does; nothing else in the list matters.
C8_OptionsByPresence ==
    pc # "idle" =>
        /\ options.allowNull <=> Occurs(OPTION_ALLOW_NULL_CHECK)
        /\ options.allowUndefined <=> Occurs(OPTION_ALLOW_UNDEFINED_CHECK)

\* a scan whose rule arguments start with an unknown token followed by
\* "allow-null-check"
C8_Witness ==
    /\ pc = "done"
    /\ ruleArguments = <<"other", OPTION_ALLOW_NULL_CHECK>>
    /\ options.allowNull
    /\ ~options.allowUndefined

VisitsOf(path) == {i \in 1..Len(visited) : visited[i] = path}

\* C10: a walk that has started comes to its end, and at its end cb has been
\* called exactly once on every proper descendant of the root and never on
\* the root.
C10_TerminatesHavingVisitedAll ==
    /\ (pc = "walking") ~> (pc = "done")
    /\ [](pc = "done" =>
              /\ \A p \in Descendants : Cardinality(VisitsOf(p)) = 1
              /\ VisitsOf(<<>>) = {}
              /\ Len(visited) = Cardinality(Descendants))

\* a finished scan of two statements with a finding in the first: the
\* second statement was visited all the same
C10_Witness ==
    /\ pc = "done"
    /\ Len(sourceFile.kids) = 2
    /\ \E i \in 1..Len(failures) : Head(failures[i].node) = 1
    /\ VisitsOf(<<2>>) # {}
    /\ stack = <<>>

\* the file a == right
ComparisonOfA(right) ==
    SourceFile(<<ExpressionStatement(
        BinaryExpression(Identifier("a"), "EqualsEqualsToken", right))>>)

\* the findings of kept that are not on an operand of the given kind
Without(kept, IsKind(_)) ==
    LET Stays(f) == ~IsKind(f.node) IN SelectSeq(kept, Stays)

\* C2: when a file is scanned again with allowNull switched on and
\* allowUndefined as before, the findings are those of the earlier scan
\* without the ones on null operands, in the same order; likewise for
\* allowUndefined and the findings on undefined operands.
C2_FlagsIndependent ==
    /\ (pc = "done" /\ last.kept /\ last.sourceFile = sourceFile) =>
           /\ ( /\ ~last.options.allowNull /\ options.allowNull
                /\ last.options.allowUndefined = options.allowUndefined )
              => failures = Without(last.failures, IsNull)
           /\ ( /\ ~last.options.allowUndefined /\ options.allowUndefined
                /\ last.options.allowNull = options.allowNull )
              => failures = Without(last.failures, IsUndefined)
    /\ (pc = "done" /\ options.allowNull /\ ~options.allowUndefined) =>
           /\ sourceFile = ComparisonOfA(NullKeyword) => Len(failures) = 0
           /\ sourceFile = ComparisonOfA(Identifier("undefined")) => Len(failures) = 1
    /\ (pc = "done" /\ ~options.allowNull /\ options.allowUndefined) =>
           /\ sourceFile = ComparisonOfA(NullKeyword) => Len(failures) = 1
           /\ sourceFile = ComparisonOfA(Identifier("undefined")) => Len(failures) = 0

\* a file with a null and an undefined finding under the default
\* configuration has been scanned again with allowNull on: the undefined
\* finding is all that is left
C2_Witness ==
    /\ pc = "done"
    /\ last.kept
    /\ last.sourceFile = sourceFile
    /\ last.options = [allowNull |-> FALSE, allowUndefined |-> FALSE]
    /\ options = [allowNull |-> TRUE, allowUndefined |-> FALSE]
    /\ Len(last.failures) = 3
    /\ Len(failures) = 1
    /\ failures[1].failure = UndefinedMessage

\* C9: a scan of the file and under the rule arguments of a scan the host
\* kept, whatever was scanned in between, ends with the same findings in the
\* same order, and no step of a scan changes the file or the configuration.
C9_DeterministicAndReadOnly ==
    /\ []((pc = "done" /\ last.kept /\ last.sourceFile = sourceFile
              /\ last.ruleArguments = ruleArguments)
             => failures = last.failures)
    /\ [][pc = "walking" =>
              /\ sourceFile' = sourceFile
              /\ ruleArguments' = ruleArguments
              /\ options' = options]_vars

\* a file has been scanned a second time under the same rule arguments,
\* and findings were made
C9_Witness ==
    /\ pc = "done"
    /\ last.kept
    /\ last.sourceFile = sourceFile
    /\ last.ruleArguments = ruleArguments
    /\ failures # <<>>
    /\ failures = last.failures

====
